---- MODULE Spec2Model ----
(***************************************************************************)
(* Model of zlflodata.get_paths: the repository.yaml manifest, the path    *)
(* resolver get_abs_data_path, get_latest_data_paths and                    *)
(* create_new_dataset.                                                      *)
(*                                                                          *)
(* Python strings that are concatenated, matched or split (names,           *)
(* versions, paths) are sequences of one-character strings, so that         *)
(* formatting, regular-expression matching and path joining are computed.   *)
(* Strings that are only compared with literals (location, messages,        *)
(* dictionary keys of a version record) are TLA+ strings.                   *)
(***************************************************************************)
EXTENDS Integers, Sequences, FiniteSets, TLC

VARIABLES
    file,      \* contents of data/repository.yaml
    env,       \* value of os.environ["ZLFLODATA_LOCATION"], or Unset
    dirs,      \* paths that exist on disk (os.path.exists)
    today,     \* the date datetime.now(tz=Europe/Amsterdam) formats to
    pc,        \* sequential caller: "idle" or "returned"
    call,      \* the call the sequential caller made last
    result,    \* what that call returned or raised
    cpc,       \* concurrent writers: position of each in create_new_dataset
    cargs,     \* concurrent writers: arguments of each call
    crep,      \* concurrent writers: the local variable rep of each call
    cres,      \* concurrent writers: outcome of each call
    overlaid,  \* concurrent writers: another writer wrote while this one held the file open
    readAt,    \* concurrent writers: number of completed dumps when rep was read
    wroteAt,   \* concurrent writers: number of completed dumps after this writer's dump
    ndumps     \* number of completed dumps

vars == <<file, env, dirs, today, pc, call, result,
          cpc, cargs, crep, cres, overlaid, readAt, wroteAt, ndumps>>

seqVars == <<pc, call, result>>
concVars == <<cpc, cargs, crep, cres, overlaid, readAt, wroteAt, ndumps>>

-----------------------------------------------------------------------------
(* String literals *)

Acme == <<"a", "c", "m", "e">>
Zed == <<"z", "e", "d">>
Foo == <<"f", "o", "o">>
Bar == <<"b", "a", "r">>

Latest == <<"l", "a", "t", "e", "s", "t">>
V100 == <<"1", ".", "0", ".", "0">>
V210 == <<"2", ".", "1", ".", "0">>
V999 == <<"9", ".", "9", ".", "9">>
V000 == <<"0", ".", "0", ".", "0">>
V12 == <<"1", ".", "2">>
Vv100 == <<"v", "1", ".", "0", ".", "0">>
V1000 == <<"1", ".", "0", ".", "0", ".", "0">>
V100nl == <<"1", ".", "0", ".", "0", "\n">>

MntExt == <<"/", "m">>
MntExtSlash == <<"/", "m", "/">>
Legacy == <<"o", "l", "d">>
Owner == <<"k", "w", "r">>
Today == <<"2", "0", "2", "5", "-", "0", "1", "-", "0", "1">>
Tomorrow == <<"2", "0", "2", "5", "-", "0", "1", "-", "0", "2">>
Amsterdam == <<"E", "u", "r", "o", "p", "e", "/", "A", "m", "s", "t", "e", "r", "d", "a", "m">>
InitialVersion == <<"I", "n", "i", "t", "i", "a", "l", " ", "v", "e", "r", "s", "i", "o", "n">>

\* Python's None, and an unset environment variable: neither is a string.
None == <<"None">>
Unset == <<"Unset">>

Digits == {"0", "1", "2", "3", "4", "5", "6", "7", "8", "9"}

\* Code points of the characters dataset names are drawn from (str comparison).
CodePoint(c) ==
    CASE c = "a" -> 97 [] c = "b" -> 98 [] c = "c" -> 99 [] c = "d" -> 100
      [] c = "e" -> 101 [] c = "f" -> 102 [] c = "m" -> 109 [] c = "o" -> 111
      [] c = "r" -> 114 [] c = "z" -> 122

-----------------------------------------------------------------------------
(* Exceptions and return values *)

MsgLpf == "local_parent_folder must be empty if location is 'get_from_env'"
MsgLocation == "Location must be 'get_from_env', 'repo', or 'local'"
MsgVersion == "Version must be a valid semantic version number or 'latest'"
MsgVersionNotFound == "Version not found in repository.yaml"
MsgExists == "Data set already exists in repository.yaml"
MsgCreateLocation == "Location must be 'repo' or 'local'"
MsgCreateVersion == "Version must be a valid semantic version number"

Raise(exc, msg) == [kind |-> exc, msg |-> msg]
Raised(r) == r.kind # "ok"

-----------------------------------------------------------------------------
(* is_valid_semver: re.compile(r"^\d+\.\d+\.\d+$").match(version).        *)
(* "$" matches at the end of the string and also just before a newline     *)
(* that ends the string.                                                    *)

AllDigits(s, from, to) ==
    /\ from <= to
    /\ \A i \in from..to : s[i] \in Digits

\* \d+\.\d+\.\d+ consuming exactly s[1..n]
MatchesBody(s, n) ==
    \E i \in 1..n : \E j \in (i + 1)..n :
        /\ s[i] = "."
        /\ s[j] = "."
        /\ AllDigits(s, 1, i - 1)
        /\ AllDigits(s, i + 1, j - 1)
        /\ AllDigits(s, j + 1, n)

is_valid_semver(version) ==
    \/ MatchesBody(version, Len(version))
    \/ /\ Len(version) >= 1
       /\ version[Len(version)] = "\n"
       /\ MatchesBody(version, Len(version) - 1)

-----------------------------------------------------------------------------
(* os.path.join(a, b) for two arguments, and pathlib.Path(s) (posix).      *)

join(a, b) ==
    IF b # <<>> /\ Head(b) = "/" THEN b
    ELSE IF a = <<>> \/ a[Len(a)] = "/" THEN a \o b
    ELSE a \o <<"/">> \o b

RECURSIVE SplitSlash(_)
SplitSlash(s) ==
    IF s = <<>> THEN << <<>> >>
    ELSE LET rest == SplitSlash(Tail(s)) IN
         IF Head(s) = "/" THEN << <<>> >> \o rest
         ELSE << <<Head(s)>> \o Head(rest) >> \o Tail(rest)

RECURSIVE JoinSlash(_)
JoinSlash(parts) ==
    IF parts = <<>> THEN <<>>
    ELSE IF Len(parts) = 1 THEN Head(parts)
    ELSE Head(parts) \o <<"/">> \o JoinSlash(Tail(parts))

PathRoot(s) ==
    IF s = <<>> \/ Head(s) # "/" THEN <<>>
    ELSE IF Len(s) >= 2 /\ s[2] = "/" /\ (Len(s) = 2 \/ s[3] # "/") THEN <<"/", "/">>
    ELSE <<"/">>

\* Path(s): empty and "." components dropped, the root kept
Path(s) ==
    LET parts == SelectSeq(SplitSlash(s), LAMBDA c : c # <<>> /\ c # <<".">>)
        p == PathRoot(s) \o JoinSlash(parts)
    IN IF p = <<>> THEN <<".">> ELSE p

\* os.path.dirname(__file__) + "/data"
get_data_dir == <<"/", "p", "k", "g", "/", "d", "a", "t", "a">>

-----------------------------------------------------------------------------
(* Dictionaries that keep insertion order (the "data" mapping):            *)
(* sequences of [key, value].                                               *)

dict_keys(d) == [i \in 1..Len(d) |-> d[i].key]
dict_has(d, k) == \E i \in 1..Len(d) : d[i].key = k
dict_get(d, k) == d[CHOOSE i \in 1..Len(d) : d[i].key = k].value
\* Mutant of dict_set_new: a fresh mapping that holds the new key alone.
dict_set_new_alone(d, k, v) == <<[key |-> k, value |-> v]>>

\* d[k] = v for a key k that d does not hold yet
dict_set_new(d, k, v) == Append(d, [key |-> k, value |-> v])

\* new_entry.update(kwargs)
dict_update(a, b) ==
    [k \in (DOMAIN a) \cup (DOMAIN b) |-> IF k \in DOMAIN b THEN b[k] ELSE a[k]]

-----------------------------------------------------------------------------
(* The manifest file.                                                       *)

\* Mutant of Document: only the dataset added last is written.
Document_last(data) ==
    [kind |-> "doc",
     title |-> "ZLFLO data repository",
     description |-> "Repository containing the public data for ZLFLO.",
     data |-> IF data = <<>> THEN data ELSE <<data[Len(data)]>>]

Document(data) ==
    [kind |-> "doc",
     title |-> "ZLFLO data repository",
     description |-> "Repository containing the public data for ZLFLO.",
     data |-> data]

EmptyFile == [kind |-> "empty"]
CorruptFile == [kind |-> "corrupt"]

\* yaml.load(file, Loader=SafeLoader)["data"]
get_repository_data_of(f) ==
    IF f.kind = "doc" THEN [kind |-> "ok", data |-> f.data]
    ELSE IF f.kind = "empty" THEN Raise("TypeError", "'NoneType' object is not subscriptable")
    ELSE Raise("YAMLError", "could not parse repository.yaml")

get_repository_data == get_repository_data_of(file)

-----------------------------------------------------------------------------
(* Version records.                                                         *)

Paths(local, server, repo) == [local |-> local, zlflo_server |-> server, repo |-> repo]

\* Mutant of local_path: the "v" before the version is left out.
local_path_no_v(name, version) == name \o <<"/">> \o version

\* Mutant of repo_path: the "public/" prefix is left out.
repo_path_unprefixed(name, version) == name \o <<"/", "v">> \o version

\* f"{name}/v{version}", f"/data/{name}/v{version}", f"public/{name}/v{version}"
local_path(name, version) == name \o <<"/", "v">> \o version
server_path(name, version) == <<"/", "d", "a", "t", "a", "/">> \o name \o <<"/", "v">> \o version
repo_path(name, version) == <<"p", "u", "b", "l", "i", "c", "/">> \o name \o <<"/", "v">> \o version

new_entry(name, version, date) ==
    [version_zlflo |-> version,
     owner |-> None,
     publication_date |-> date,
     version_owner |-> version,
     description_short |-> None,
     description_long |-> None,
     contact |-> None,
     timezone |-> Amsterdam,
     extent |-> <<>>,
     paths |-> Paths(local_path(name, version), server_path(name, version),
                     repo_path(name, version)),
     changelog |-> [previous_version |-> V000, log |-> InitialVersion]]

-----------------------------------------------------------------------------
(* get_abs_data_path                                                        *)

\* Mutant of environ_get: the variable is never found.
environ_get_unset == <<>>

\* os.environ.get("ZLFLODATA_LOCATION", "")
environ_get == IF env = Unset THEN <<>> ELSE env

Locations == {"get_from_env", "repo", "local"}

\* Mutant of first_index: the index of the last match.
first_index_last(versions_ordered, version) ==
    (CHOOSE i \in 1..Len(versions_ordered) :
        /\ versions_ordered[i] = version
        /\ \A j \in (i + 1)..Len(versions_ordered) : versions_ordered[j] # version) - 1

\* versions_ordered.index(version): Python's index of the first match
first_index(versions_ordered, version) ==
    (CHOOSE i \in 1..Len(versions_ordered) :
        /\ versions_ordered[i] = version
        /\ \A j \in 1..(i - 1) : versions_ordered[j] # version) - 1

\* rep[name][version_index]["paths"][key], with the exceptions of the subscripts
record_path(rep, name, version_index, key) ==
    IF ~dict_has(rep, name) THEN Raise("KeyError", "name")
    ELSE IF version_index + 1 > Len(dict_get(rep, name)) THEN Raise("IndexError", "list index out of range")
    ELSE [kind |-> "ok", path |-> dict_get(rep, name)[version_index + 1].paths[key]]

\* the two branches that build abs_path, the warning and the return
build_path(rep, name, version_index, location, local_parent_folder) ==
    LET use_repo == location = "repo" \/ (location = "get_from_env" /\ local_parent_folder = <<>>)
        rel == record_path(rep, name, version_index, IF use_repo THEN "repo" ELSE "local")
    IN IF Raised(rel) THEN rel
       ELSE LET abs_path == IF use_repo THEN join(get_data_dir, rel.path)
                            ELSE join(local_parent_folder, rel.path)
            IN [kind |-> "ok",
                path |-> Path(abs_path),
                index |-> version_index,
                warned |-> Path(abs_path) \notin dirs]

\* Mutant of select_version: "latest" takes the last record of the list.
select_version_oldest(rep, name, version, location, local_parent_folder) ==
    IF ~dict_has(rep, name) THEN Raise("KeyError", "name")
    ELSE IF version = Latest
    THEN build_path(rep, name, Len(dict_get(rep, name)) - 1, location, local_parent_folder)
    ELSE LET versions_ordered == [i \in 1..Len(dict_get(rep, name)) |->
                                      dict_get(rep, name)[i].version_zlflo]
         IN IF \A i \in 1..Len(versions_ordered) : versions_ordered[i] # version
            THEN Raise("ValueError", MsgVersionNotFound)
            ELSE build_path(rep, name, first_index(versions_ordered, version),
                            location, local_parent_folder)

\* the selection of version_index
select_version(rep, name, version, location, local_parent_folder) ==
    IF version = Latest THEN build_path(rep, name, 0, location, local_parent_folder)
    ELSE IF ~dict_has(rep, name) THEN Raise("KeyError", "name")
    ELSE LET versions_ordered == [i \in 1..Len(dict_get(rep, name)) |->
                                      dict_get(rep, name)[i].version_zlflo]
         IN IF \A i \in 1..Len(versions_ordered) : versions_ordered[i] # version
            THEN Raise("ValueError", MsgVersionNotFound)
            ELSE build_path(rep, name, first_index(versions_ordered, version),
                            location, local_parent_folder)

\* Mutant of get_abs_data_path: the check of local_parent_folder against
\* location is left out.
get_abs_data_path_unchecked(name, version, location, local_parent_folder) ==
    LET lpf == IF location = "get_from_env" THEN environ_get ELSE local_parent_folder IN
    IF location \notin Locations THEN Raise("ValueError", MsgLocation)
    ELSE IF ~(is_valid_semver(version) \/ version = Latest)
    THEN Raise("ValueError", MsgVersion)
    ELSE LET rep == get_repository_data IN
         IF Raised(rep) THEN rep
         ELSE select_version(rep.data, name, version, location, lpf)

get_abs_data_path(name, version, location, local_parent_folder) ==
    IF local_parent_folder # <<>> /\ location # "local" THEN Raise("ValueError", MsgLpf)
    ELSE LET lpf == IF location = "get_from_env" THEN environ_get ELSE local_parent_folder IN
         IF location \notin Locations THEN Raise("ValueError", MsgLocation)
         ELSE IF ~(is_valid_semver(version) \/ version = Latest)
         THEN Raise("ValueError", MsgVersion)
         ELSE LET rep == get_repository_data IN
              IF Raised(rep) THEN rep
              ELSE select_version(rep.data, name, version, location, lpf)

-----------------------------------------------------------------------------
(* get_latest_data_paths                                                    *)

RECURSIVE str_less(_, _)
str_less(a, b) ==
    IF b = <<>> THEN FALSE
    ELSE IF a = <<>> THEN TRUE
    ELSE IF Head(a) # Head(b) THEN CodePoint(Head(a)) < CodePoint(Head(b))
    ELSE str_less(Tail(a), Tail(b))

RECURSIVE sorted(_)
sorted(keys) ==
    IF keys = <<>> THEN <<>>
    ELSE LET m == CHOOSE i \in 1..Len(keys) :
                      \A j \in 1..Len(keys) : ~str_less(keys[j], keys[i])
         IN <<keys[m]>> \o sorted([i \in 1..(Len(keys) - 1) |->
                                       IF i < m THEN keys[i] ELSE keys[i + 1]])

RECURSIVE collect_paths(_)
collect_paths(dataset_names) ==
    IF dataset_names = <<>> THEN [kind |-> "ok", paths |-> <<>>]
    ELSE LET first == get_abs_data_path(Head(dataset_names), Latest, "repo", <<>>) IN
         IF Raised(first) THEN first
         ELSE LET rest == collect_paths(Tail(dataset_names)) IN
              IF Raised(rest) THEN rest
              ELSE [kind |-> "ok", paths |-> <<first.path>> \o rest.paths]

get_latest_data_paths ==
    LET rep == get_repository_data IN
    IF Raised(rep) THEN rep
    ELSE collect_paths(sorted(dict_keys(rep.data)))

-----------------------------------------------------------------------------
(* create_new_dataset: the part up to and including the update of rep.      *)
(* Returns the exception raised, or the new rep and the directories.        *)

\* Mutant of build_rep: location and version are checked before the name.
build_rep_name_last(rep, name, version, location, makedirs, kwargs, date) ==
    IF location \notin {"repo", "local"} THEN Raise("ValueError", MsgCreateLocation)
    ELSE IF ~is_valid_semver(version) THEN Raise("ValueError", MsgCreateVersion)
    ELSE IF dict_has(rep, name) THEN Raise("ValueError", MsgExists)
    ELSE [kind |-> "ok",
          rep |-> dict_set_new(rep, name, <<dict_update(new_entry(name, version, date), kwargs)>>),
          mkdir |-> {}]

build_rep(rep, name, version, location, makedirs, kwargs, date) ==
    IF dict_has(rep, name) THEN Raise("ValueError", MsgExists)
    ELSE IF location \notin {"repo", "local"} THEN Raise("ValueError", MsgCreateLocation)
    ELSE IF ~is_valid_semver(version) THEN Raise("ValueError", MsgCreateVersion)
    ELSE [kind |-> "ok",
          rep |-> dict_set_new(rep, name, <<dict_update(new_entry(name, version, date), kwargs)>>),
          mkdir |-> IF makedirs /\ location = "public"
                    THEN {Path(join(get_data_dir, repo_path(name, version)))}
                    ELSE {}]

\* the whole call, run without interruption
create_new_dataset(name, version, location, makedirs, kwargs, date) ==
    LET rep == get_repository_data IN
    IF Raised(rep) THEN [result |-> rep, file |-> file, dirs |-> dirs]
    ELSE LET built == build_rep(rep.data, name, version, location, makedirs, kwargs, date) IN
         IF Raised(built) THEN [result |-> built, file |-> file, dirs |-> dirs]
         ELSE [result |-> [kind |-> "ok"],
               file |-> Document(built.rep),
               dirs |-> dirs \cup built.mkdir]

-----------------------------------------------------------------------------
(* Manifests the repository can ship, and the inputs of the calls.          *)

\* most datasets a manifest holds in the model
MaxDatasets == 3

manifest_entry(name, version, paths) ==
    dict_update(new_entry(name, version, Today), [owner |-> Owner, paths |-> paths])

\* a record as the manifest lists it: {name}/v{version}, /data/{name}/v{version},
\* public/{name}/v{version}
conventional(name, version) ==
    manifest_entry(name, version,
                   Paths(name \o <<"/", "v">> \o version,
                         <<"/", "d", "a", "t", "a", "/">> \o name \o <<"/", "v">> \o version,
                         <<"p", "u", "b", "l", "i", "c", "/">> \o name \o <<"/", "v">> \o version))

AcmeVersions == <<conventional(Acme, V210), conventional(Acme, V100)>>

\* every record follows the path conventions
ManifestA ==
    Document(<<[key |-> Zed, value |-> <<conventional(Zed, V100)>>],
               [key |-> Acme, value |-> AcmeVersions]>>)

\* a hand-edited manifest: zed lists version 1.0.0 twice, the second record
\* with the paths of an older layout
ManifestB ==
    Document(<<[key |-> Zed,
                value |-> <<conventional(Zed, V100),
                            manifest_entry(Zed, V100,
                                           Paths(Legacy, Legacy,
                                                 <<"o", "l", "d", "/", "z", "e", "d">>))>>],
               [key |-> Acme, value |-> AcmeVersions]>>)

Manifests == {ManifestA, ManifestB}

EnvValues == {Unset, <<>>, MntExt}

Dates == {Today, Tomorrow}

\* /pkg/data/public/acme/v2.1.0, /pkg/data/public/acme/v1.0.0, /m/acme/v2.1.0
ExistingDirs ==
    {get_data_dir \o <<"/", "p", "u", "b", "l", "i", "c", "/">> \o Acme \o <<"/", "v">> \o V210,
     get_data_dir \o <<"/", "p", "u", "b", "l", "i", "c", "/">> \o Acme \o <<"/", "v">> \o V100,
     MntExt \o <<"/">> \o Acme \o <<"/", "v">> \o V210}

ResolveNames == {Acme, Zed, Foo}
ResolveVersions == {Latest, V100, V210, V999, V12, Vv100, V1000, V100nl}
ResolveLocations == {"get_from_env", "repo", "local", "zlflo_server"}
ParentFolders == {<<>>, MntExt, MntExtSlash}

CreateNames == {Acme, Foo, Bar}
CreateVersions == {V100, V100nl, Vv100}
CreateLocations == {"repo", "local", "public"}
NoKwargs == [k \in {} |-> None]
CreateKwargs ==
    {NoKwargs,
     [owner |-> Owner],
     [paths |-> Paths(Legacy, Legacy, Legacy)],
     [version_zlflo |-> V210]}

NoCall == [op |-> "none"]
NoResult == [kind |-> "none"]

Writers == {1, 2}
WriterNames == {Acme, Foo, Bar}
WriterVersions == {V100, Vv100}
NoArgs == [name |-> <<>>, version |-> <<>>]

-----------------------------------------------------------------------------
(* One caller, one call at a time.                                          *)

Init ==
    /\ file \in Manifests
    /\ env \in EnvValues
    /\ dirs = ExistingDirs
    /\ today \in Dates
    /\ pc = "idle"
    /\ call = NoCall
    /\ result = NoResult
    /\ cpc = [w \in Writers |-> "idle"]
    /\ cargs = [w \in Writers |-> NoArgs]
    /\ crep = [w \in Writers |-> <<>>]
    /\ cres = [w \in Writers |-> NoResult]
    /\ overlaid = [w \in Writers |-> FALSE]
    /\ readAt = [w \in Writers |-> 0]
    /\ wroteAt = [w \in Writers |-> 0]
    /\ ndumps = 0

GetAbsDataPath ==
    /\ pc = "idle"
    /\ \E name \in ResolveNames, version \in ResolveVersions,
          location \in ResolveLocations, local_parent_folder \in ParentFolders :
        /\ call' = [op |-> "get_abs_data_path", name |-> name, version |-> version,
                    location |-> location, local_parent_folder |-> local_parent_folder]
        /\ result' = get_abs_data_path(name, version, location, local_parent_folder)
    /\ pc' = "returned"
    /\ UNCHANGED <<file, env, dirs, today>>
    /\ UNCHANGED concVars

GetLatestDataPaths ==
    /\ pc = "idle"
    /\ call' = [op |-> "get_latest_data_paths"]
    /\ result' = get_latest_data_paths
    /\ pc' = "returned"
    /\ UNCHANGED <<file, env, dirs, today>>
    /\ UNCHANGED concVars

CreateNewDataset ==
    /\ pc = "idle"
    /\ \E name \in CreateNames, version \in CreateVersions, location \in CreateLocations,
          makedirs \in BOOLEAN, kwargs \in CreateKwargs :
        LET out == create_new_dataset(name, version, location, makedirs, kwargs, today) IN
        /\ out.file.kind = "doc" => Len(out.file.data) <= MaxDatasets
        /\ call' = [op |-> "create_new_dataset", name |-> name, version |-> version,
                    location |-> location, makedirs |-> makedirs, kwargs |-> kwargs]
        /\ result' = out.result
        /\ file' = out.file
        /\ dirs' = out.dirs
    /\ pc' = "returned"
    /\ UNCHANGED <<env, today>>
    /\ UNCHANGED concVars

\* the caller has looked at the outcome and is ready for the next call
Return ==
    /\ pc = "returned"
    /\ pc' = "idle"
    /\ call' = NoCall
    /\ result' = NoResult
    /\ UNCHANGED <<file, env, dirs, today>>
    /\ UNCHANGED concVars

Next ==
    \/ GetAbsDataPath
    \/ GetLatestDataPaths
    \/ CreateNewDataset
    \/ Return

Spec == Init /\ [][Next]_vars

-----------------------------------------------------------------------------
(* Two callers of create_new_dataset at once.  Each call touches the file   *)
(* three times: the read in get_repository_data, open(..., "w"), which      *)
(* empties the file, and yaml.dump with the close that ends the with block, *)
(* which puts the document into it.  What a call computes between the read  *)
(* and the open is local to it and is part of the read step.                *)

InitWriters ==
    /\ file = ManifestA
    /\ env = Unset
    /\ dirs = ExistingDirs
    /\ today = Today
    /\ pc = "idle"
    /\ call = NoCall
    /\ result = NoResult
    /\ cpc = [w \in Writers |-> "idle"]
    /\ cargs = [w \in Writers |-> NoArgs]
    /\ crep = [w \in Writers |-> <<>>]
    /\ cres = [w \in Writers |-> NoResult]
    /\ overlaid = [w \in Writers |-> FALSE]
    /\ readAt = [w \in Writers |-> 0]
    /\ wroteAt = [w \in Writers |-> 0]
    /\ ndumps = 0

\* rep = get_repository_data() and everything up to rep[name] = [new_entry]
WriterRead(w) ==
    /\ cpc[w] = "idle"
    /\ \E name \in WriterNames, version \in WriterVersions :
        LET rep == get_repository_data
            built == build_rep(rep.data, name, version, "repo", TRUE, NoKwargs, today)
        IN /\ cargs' = [cargs EXCEPT ![w] = [name |-> name, version |-> version]]
           /\ IF Raised(rep)
              THEN /\ cpc' = [cpc EXCEPT ![w] = "done"]
                   /\ cres' = [cres EXCEPT ![w] = rep]
                   /\ crep' = crep
              ELSE IF Raised(built)
              THEN /\ cpc' = [cpc EXCEPT ![w] = "done"]
                   /\ cres' = [cres EXCEPT ![w] = built]
                   /\ crep' = crep
              ELSE /\ cpc' = [cpc EXCEPT ![w] = "built"]
                   /\ cres' = cres
                   /\ crep' = [crep EXCEPT ![w] = built.rep]
    /\ readAt' = [readAt EXCEPT ![w] = ndumps]
    /\ UNCHANGED <<file, env, dirs, today, overlaid, wroteAt, ndumps>>
    /\ UNCHANGED seqVars

\* open(get_repository_path(), "w", encoding="utf-8")
WriterOpen(w) ==
    /\ cpc[w] = "built"
    /\ cpc' = [cpc EXCEPT ![w] = "open"]
    /\ file' = EmptyFile
    /\ overlaid' = [overlaid EXCEPT ![w] = FALSE]
    /\ UNCHANGED <<env, dirs, today, cargs, crep, cres, readAt, wroteAt, ndumps>>
    /\ UNCHANGED seqVars

\* What the file holds after writer w has written its document from offset 0:
\* the document, unless another writer wrote through its own handle while w
\* held the file open; then the bytes of the other document that reach past
\* the end of w's stay, and the file may not be a document.
dumped(w) ==
    IF overlaid[w] THEN {Document(crep[w]), CorruptFile} ELSE {Document(crep[w])}

\* yaml.dump(rep_yml, file, ...) and the close of the file
WriterDump(w) ==
    /\ cpc[w] = "open"
    /\ file' \in dumped(w)
    /\ cpc' = [cpc EXCEPT ![w] = "done"]
    /\ cres' = [cres EXCEPT ![w] = [kind |-> "ok"]]
    /\ overlaid' = [v \in Writers |-> IF v # w /\ cpc[v] = "open" THEN TRUE ELSE overlaid[v]]
    /\ ndumps' = ndumps + 1
    /\ wroteAt' = [wroteAt EXCEPT ![w] = ndumps + 1]
    /\ UNCHANGED <<env, dirs, today, cargs, crep, readAt>>
    /\ UNCHANGED seqVars

NextWriters ==
    \/ \E w \in Writers : WriterRead(w)
    \/ \E w \in Writers : WriterOpen(w)
    \/ \E w \in Writers : WriterDump(w)

SpecWriters == InitWriters /\ [][NextWriters]_vars

-----------------------------------------------------------------------------
(* The error classes of the specification, read off the exceptions.         *)

InvalidArgument(r) ==
    /\ r.kind = "ValueError"
    /\ r.msg \in {MsgLpf, MsgLocation, MsgVersion, MsgCreateLocation, MsgCreateVersion}

NotFound(r) ==
    \/ r.kind = "KeyError"
    \/ r.kind = "ValueError" /\ r.msg = MsgVersionNotFound

Conflict(r) == r.kind = "ValueError" /\ r.msg = MsgExists

\* MAJOR.MINOR.PATCH, every part a non-empty run of digits, nothing else
StrictSemver(v) == MatchesBody(v, Len(v))

Resolved == pc = "returned" /\ call.op = "get_abs_data_path"
Created == pc = "returned" /\ call.op = "create_new_dataset" /\ result.kind = "ok"

\* the call gets past the checks of its arguments
PassesValidation(c) ==
    /\ c.location \in Locations
    /\ c.local_parent_folder # <<>> => c.location = "local"

\* every record of every dataset follows the path conventions
Conventional(data) ==
    \A i \in 1..Len(data) : \A j \in 1..Len(data[i].value) :
        LET rec == data[i].value[j] IN
        /\ rec.paths.local = data[i].key \o <<"/", "v">> \o rec.version_zlflo
        /\ rec.paths.repo = <<"p", "u", "b", "l", "i", "c", "/">> \o data[i].key
                                \o <<"/", "v">> \o rec.version_zlflo

-----------------------------------------------------------------------------
\* C1: after a successful create_new_dataset(name, version) without extra
\* fields, get_abs_data_path(name, "latest", "repo") returns
\* {data_dir}/public/{name}/v{version}.
C1_RoundTrip ==
    (Created /\ DOMAIN call.kwargs = {}) =>
        LET r == get_abs_data_path(call.name, Latest, "repo", <<>>) IN
        /\ r.kind = "ok"
        /\ r.path = get_data_dir \o <<"/", "p", "u", "b", "l", "i", "c", "/">>
                        \o call.name \o <<"/", "v">> \o call.version

C1_Witness ==
    /\ Created
    /\ DOMAIN call.kwargs = {}
    /\ call.name = Foo
    /\ call.version = V100
    /\ get_abs_data_path(Foo, Latest, "repo", <<>>).path
         = <<"/", "p", "k", "g", "/", "d", "a", "t", "a", "/", "p", "u", "b", "l", "i", "c",
             "/", "f", "o", "o", "/", "v", "1", ".", "0", ".", "0">>

\* C2: create_new_dataset with a name the manifest already holds raises the
\* "already exists" error whatever the other arguments are, and the file
\* after the call is the file before it.
C2_ConflictLeavesFile ==
    [][(call'.op = "create_new_dataset" /\ file.kind = "doc" /\ dict_has(file.data, call'.name))
         => (Conflict(result') /\ file' = file)]_vars

C2_Witness ==
    /\ pc = "returned"
    /\ call.op = "create_new_dataset"
    /\ call.name = Acme
    /\ call.location = "public"
    /\ call.version = Vv100
    /\ Conflict(result)

\* C3: for a name the manifest holds and version "latest", the call returns
\* the path of the record at index 0: data_dir joined with its paths.repo for
\* location "repo", local_parent_folder joined with its paths.local for
\* location "local"; no other index is used.
C3_LatestIsIndexZero ==
    (Resolved /\ call.version = Latest /\ file.kind = "doc" /\ dict_has(file.data, call.name)) =>
        LET rec0 == dict_get(file.data, call.name)[1] IN
        /\ (call.location = "repo" /\ call.local_parent_folder = <<>>) =>
              /\ result.kind = "ok"
              /\ result.path = Path(join(get_data_dir, rec0.paths.repo))
        /\ call.location = "local" =>
              /\ result.kind = "ok"
              /\ result.path = Path(join(call.local_parent_folder, rec0.paths.local))
        /\ result.kind = "ok" => result.index = 0

C3_Witness ==
    /\ Resolved
    /\ call.version = Latest
    /\ call.name = Acme
    /\ call.location = "local"
    /\ call.local_parent_folder = MntExt
    /\ result.kind = "ok"
    /\ result.path = <<"/", "m", "/", "a", "c", "m", "e", "/", "v", "2", ".", "1", ".", "0">>

\* C4: for a name the manifest holds and a MAJOR.MINOR.PATCH version, in a
\* call that passes the checks of location and local_parent_folder: when no
\* record of the dataset has that version_zlflo the call raises "Version not
\* found" and returns no path; otherwise the record used is the first one
\* whose version_zlflo equals the version.
C4_ExactVersion ==
    (/\ Resolved
     /\ StrictSemver(call.version)
     /\ PassesValidation(call)
     /\ file.kind = "doc"
     /\ dict_has(file.data, call.name)) =>
        LET records == dict_get(file.data, call.name)
            matching == {i \in 1..Len(records) : records[i].version_zlflo = call.version}
        IN IF matching = {}
           THEN NotFound(result) /\ result.kind = "ValueError"
           ELSE /\ result.kind = "ok"
                /\ \A i \in matching : result.index + 1 <= i
                /\ result.index + 1 \in matching

C4_Witness ==
    /\ Resolved
    /\ call.name = Acme
    /\ call.version = V999
    /\ call.location = "repo"
    /\ NotFound(result)

\* a version listed twice: the first of the two records is the one used
C4_WitnessFirstMatch ==
    /\ Resolved
    /\ file = ManifestB
    /\ call.name = Zed
    /\ call.version = V100
    /\ result.kind = "ok"
    /\ result.index = 0

\* C5: a version that is neither "latest" nor MAJOR.MINOR.PATCH with
\* all-digit parts makes get_abs_data_path raise an invalid-argument error,
\* also when the manifest does not hold the name.
C5_MalformedVersionRejected ==
    (Resolved /\ call.version # Latest /\ ~StrictSemver(call.version)) => InvalidArgument(result)

\* C6: a non-empty local_parent_folder with location "repo" or
\* "get_from_env" raises an invalid-argument error, whatever the name, the
\* version, the manifest and ZLFLODATA_LOCATION are.
C6_ParentFolderOnlyWithLocal ==
    (Resolved /\ call.local_parent_folder # <<>> /\ call.location \in {"repo", "get_from_env"})
        => InvalidArgument(result)

C6_Witness ==
    /\ Resolved
    /\ call.local_parent_folder = MntExt
    /\ call.location = "repo"
    /\ call.name = Acme
    /\ call.version = Latest
    /\ env = MntExt
    /\ InvalidArgument(result)

\* C7: with location "get_from_env" and no local_parent_folder the outcome is
\* that of location "local" with the value of ZLFLODATA_LOCATION as parent
\* folder when the variable is set and not empty, and that of location
\* "repo" when it is unset or empty.
C7_EnvDefault ==
    (Resolved /\ call.location = "get_from_env" /\ call.local_parent_folder = <<>>) =>
        result = IF env # Unset /\ env # <<>>
                 THEN get_abs_data_path(call.name, call.version, "local", env)
                 ELSE get_abs_data_path(call.name, call.version, "repo", <<>>)

C7_Witness ==
    /\ Resolved
    /\ call.location = "get_from_env"
    /\ call.local_parent_folder = <<>>
    /\ env = MntExt
    /\ call.name = Acme
    /\ call.version = Latest
    /\ result.kind = "ok"
    /\ result.path = <<"/", "m", "/", "a", "c", "m", "e", "/", "v", "2", ".", "1", ".", "0">>

\* C8, as claimed: a successful create_new_dataset on a manifest whose
\* records all follow the path conventions leaves a manifest whose records
\* all follow them, whatever the extra fields are.
C8_ConventionsKeptAnyKwargs ==
    [][(/\ call'.op = "create_new_dataset"
        /\ result'.kind = "ok"
        /\ file.kind = "doc"
        /\ Conventional(file.data)) => Conventional(file'.data)]_vars

\* C8, amended: the same, for extra fields that hold neither the key
\* "paths" nor the key "version_zlflo".
C8_ConventionsKept ==
    [][(/\ call'.op = "create_new_dataset"
        /\ result'.kind = "ok"
        /\ {"paths", "version_zlflo"} \cap DOMAIN call'.kwargs = {}
        /\ file.kind = "doc"
        /\ Conventional(file.data)) => Conventional(file'.data)]_vars

C8_Witness ==
    /\ Created
    /\ DOMAIN call.kwargs = {"owner"}
    /\ call.name = Foo
    /\ Len(file.data) = 3
    /\ Conventional(file.data)

\* C9: two calls for different new names that both return normally and leave
\* a document: the name of the call that wrote last is in it, and the name
\* of the other call is in it exactly when the call that wrote last read the
\* manifest after the other had written it; so calls that run one after the
\* other keep both names, and calls whose reads both precede the writes
\* lose one.
C9_LostUpdate ==
    \A w \in Writers : \A o \in Writers \ {w} :
        (/\ cpc[w] = "done" /\ cpc[o] = "done"
         /\ cres[w].kind = "ok" /\ cres[o].kind = "ok"
         /\ cargs[w].name # cargs[o].name
         /\ wroteAt[o] < wroteAt[w]
         /\ file.kind = "doc") =>
            /\ dict_has(file.data, cargs[w].name)
            /\ dict_has(file.data, cargs[o].name) <=> readAt[w] >= wroteAt[o]

\* both calls returned normally and one name is gone
C9_Witness ==
    /\ \A w \in Writers : cpc[w] = "done" /\ cres[w].kind = "ok"
    /\ cargs[1].name = Foo
    /\ cargs[2].name = Bar
    /\ file.kind = "doc"
    /\ ~dict_has(file.data, Foo)
    /\ dict_has(file.data, Bar)

\* C10: a successful create_new_dataset(name, ...) leaves the data mapping
\* it found, every dataset with its version list as it was and in the same
\* place, followed by the one key name with a list of one record;
\* get_abs_data_path and get_latest_data_paths leave the file as it was.
C10_AppendsOneRecord ==
    [][/\ (call'.op = "create_new_dataset" /\ result'.kind = "ok") =>
              /\ file.kind = "doc"
              /\ file'.kind = "doc"
              /\ ~dict_has(file.data, call'.name)
              /\ Len(file'.data) = Len(file.data) + 1
              /\ SubSeq(file'.data, 1, Len(file.data)) = file.data
              /\ file'.data[Len(file'.data)].key = call'.name
              /\ Len(file'.data[Len(file'.data)].value) = 1
       /\ call'.op \in {"get_abs_data_path", "get_latest_data_paths"} => file' = file]_vars

C10_Witness ==
    /\ Created
    /\ file.kind = "doc"
    /\ dict_keys(file.data) = <<Zed, Acme, Bar>>
    /\ Len(dict_get(file.data, Acme)) = 2
    /\ Len(dict_get(file.data, Bar)) = 1

====
